---- MODULE Spec2Model ----
(***************************************************************************)
(* Model of scripts/blocks.py, the generator of the block state file.      *)
(*                                                                         *)
(* The script is one sequential batch run: it opens the input and the      *)
(* output, loads the blocks report, appends to seven code buffers while it *)
(* walks the blocks in document order, closes the buffers and writes them. *)
(* Strings are sequences of one-character strings, so that slicing,        *)
(* split("_"), title() and the keyword suffix are computed, not assumed.   *)
(* The buffers hold the generated items (enum variants, match arms, ifs),  *)
(* and the generated functions are evaluated over those items with the     *)
(* first-arm-wins meaning of a Rust match.                                 *)
(***************************************************************************)
EXTENDS Integers, Sequences, FiniteSets, TLC

\* ------------------------------------------------------------------ bounds
\* Blocks in one input document.
MaxOwners == 2
\* Properties declared by one block.
MaxProps == 2
\* Distance between the first state ids two blocks may be given.
CodeStride == 4
\* Length of the "minecraft:" prefix that strip_minecraft_identifier drops.
PrefixLen == 10

\* ------------------------------------------------------------------ strings
Lower == <<"a","b","c","d","e","f","g","h","i","j","k","l","m",
           "n","o","p","q","r","s","t","u","v","w","x","y","z">>
Upper == <<"A","B","C","D","E","F","G","H","I","J","K","L","M",
           "N","O","P","Q","R","S","T","U","V","W","X","Y","Z">>
Digits == {"0","1","2","3","4","5","6","7","8","9"}

IsLower(c) == \E k \in 1..26 : Lower[k] = c
IsUpper(c) == \E k \in 1..26 : Upper[k] = c
IsCased(c) == IsLower(c) \/ IsUpper(c)
ToUpper(c) == IF IsLower(c) THEN Upper[CHOOSE k \in 1..26 : Lower[k] = c] ELSE c
ToLower(c) == IF IsUpper(c) THEN Lower[CHOOSE k \in 1..26 : Upper[k] = c] ELSE c

\* "".join(parts)
RECURSIVE Join(_)
Join(parts) ==
    IF parts = <<>> THEN <<>> ELSE Head(parts) \o Join(Tail(parts))

\* s.split("_")
RECURSIVE Split(_)
Split(s) ==
    IF \A k \in 1..Len(s) : s[k] # "_"
    THEN <<s>>
    ELSE LET k == CHOOSE j \in 1..Len(s) :
                      s[j] = "_" /\ \A m \in 1..(j - 1) : s[m] # "_"
         IN <<SubSeq(s, 1, k - 1)>> \o Split(SubSeq(s, k + 1, Len(s)))

\* x.title(): a letter is upper-cased when the character before it is not a
\* letter, and lower-cased otherwise; other characters are kept.
Title(x) ==
    [k \in 1..Len(x) |->
        IF ~IsCased(x[k]) THEN x[k]
        ELSE IF k > 1 /\ IsCased(x[k - 1]) THEN ToLower(x[k])
        ELSE ToUpper(x[k])]

\* val.isdigit()
IsDigit(val) == val # <<>> /\ \A k \in 1..Len(val) : val[k] \in Digits

\* ------------------------------------------------------- program constants
S_true == <<"t","r","u","e">>
S_false == <<"f","a","l","s","e">>
TyBool == <<"b","o","o","l">>
TyI32 == <<"i","3","2">>
TyEnum == <<"_","e","n","u","m">>

KEYWORDS == {<<"t","y","p","e">>, <<"i","n">>}

KNOWN_PROPERTIES_NoAxis ==
    {<<"f","a","c","i","n","g">>, <<"h","a","l","f">>, <<"f","a","c","e">>,
     <<"s","h","a","p","e">>, <<"h","i","n","g","e">>, <<"p","a","r","t">>}

KNOWN_PROPERTIES ==
    {<<"f","a","c","i","n","g">>, <<"a","x","i","s">>, <<"h","a","l","f">>,
     <<"f","a","c","e">>, <<"s","h","a","p","e">>, <<"h","i","n","g","e">>,
     <<"p","a","r","t">>}

\* ---------------------------------------------------------- pure functions
strip_minecraft_identifier(s) == SubSeq(s, PrefixLen + 1, Len(s))

snake_to_upper_camel(s) ==
    LET components == Split(s)
    IN Join([k \in 1..Len(components) |-> Title(components[k])])

get_type_from_value(val) ==
    IF val = S_true \/ val = S_false THEN TyBool
    ELSE IF IsDigit(val) THEN TyI32
    ELSE TyEnum

process_property_name(s) == IF s \in KEYWORDS THEN s \o <<"_">> ELSE s

\* -------------------------------------------------- the well-known enums
EnumFacing ==
    [name |-> <<"F","a","c","i","n","g">>,
     variants |-> <<<<"N","o","r","t","h">>,
                    <<"S","o","u","t","h">>,
                    <<"E","a","s","t">>,
                    <<"W","e","s","t">>,
                    <<"U","p">>,
                    <<"D","o","w","n">>>>]
EnumAxis ==
    [name |-> <<"A","x","i","s">>,
     variants |-> <<<<"X">>,
                    <<"Y">>,
                    <<"Z">>>>]
EnumHalf ==
    [name |-> <<"H","a","l","f">>,
     variants |-> <<<<"U","p","p","e","r">>,
                    <<"L","o","w","e","r">>,
                    <<"T","o","p">>,
                    <<"B","o","t","t","o","m">>>>]
EnumFace ==
    [name |-> <<"F","a","c","e">>,
     variants |-> <<<<"F","l","o","o","r">>,
                    <<"W","a","l","l">>,
                    <<"C","e","i","l","i","n","g">>>>]
EnumShape ==
    [name |-> <<"S","h","a","p","e">>,
     variants |-> <<<<"S","t","r","a","i","g","h","t">>,
                    <<"I","n","n","e","r","L","e","f","t">>,
                    <<"I","n","n","e","r","R","i","g","h","t">>,
                    <<"O","u","t","e","r","L","e","f","t">>,
                    <<"O","u","t","e","r","R","i","g","h","t">>,
                    <<"A","s","c","e","n","d","i","n","g","N","o","r","t","h">>,
                    <<"A","s","c","e","n","d","i","n","g","E","a","s","t">>,
                    <<"A","s","c","e","n","d","i","n","g","S","o","u","t","h">>,
                    <<"A","s","c","e","n","d","i","n","g","W","e","s","t">>,
                    <<"N","o","r","t","h","E","a","s","t">>,
                    <<"N","o","r","t","h","W","e","s","t">>,
                    <<"S","o","u","t","h","E","a","s","t">>,
                    <<"S","o","u","t","h","W","e","s","t">>,
                    <<"N","o","r","t","h","S","o","u","t","h">>,
                    <<"E","a","s","t","W","e","s","t">>>>]
EnumHinge ==
    [name |-> <<"H","i","n","g","e">>,
     variants |-> <<<<"L","e","f","t">>,
                    <<"R","i","g","h","t">>>>]
EnumPart ==
    [name |-> <<"P","a","r","t">>,
     variants |-> <<<<"H","e","a","d">>,
                    <<"F","o","o","t">>>>]

\* end_code before the first block is read.
KnownEnums ==
    <<EnumFacing, EnumAxis, EnumHalf, EnumFace, EnumShape, EnumHinge, EnumPart>>

\* ------------------------------------------------------------- the input
\* A document is a sequence of blocks in document order (json.load with
\* object_pairs_hook=OrderedDict).  A block has an identifier, a "properties"
\* object (name -> list of values, empty when the key is absent) and a
\* "states" list; hasStates is FALSE for a block object without "states".
Prefix == <<"m","i","n","e","c","r","a","f","t",":">>

Identifiers ==
    {Prefix \o <<"t","n","t">>,
     Prefix \o <<"o","a","k","_","l","o","g">>,
     Prefix \o <<"b","e","d">>}

\* The property declarations blocks draw from: a well-known symbolic one, a
\* keyword-named boolean, an integer, a keyword-named symbolic one with an
\* underscore in a value, a well-known name with boolean values, a domain
\* mixing an integer and a symbol, and a single-valued boolean.
PropPool ==
    <<[name |-> <<"a","x","i","s">>, vals |-> << <<"x">>, <<"y">> >>],
      [name |-> <<"i","n">>, vals |-> <<S_true, S_false>>],
      [name |-> <<"a","g","e">>, vals |-> << <<"0">>, <<"1">> >>],
      [name |-> <<"t","y","p","e">>, vals |-> << <<"o","n","_","u","p">>, <<"c">> >>],
      [name |-> <<"h","a","l","f">>, vals |-> <<S_true, S_false>>],
      [name |-> <<"k">>, vals |-> << <<"1">>, <<"x">> >>],
      [name |-> <<"l","i","t">>, vals |-> <<S_true>>]>>

\* The elements of a set of numbers in increasing order.
RECURSIVE Sorted(_)
Sorted(S) ==
    IF S = {} THEN <<>>
    ELSE LET m == CHOOSE x \in S : \A y \in S : x <= y
         IN <<m>> \o Sorted(S \ {m})

PropLists ==
    {[k \in 1..Cardinality(S) |-> PropPool[Sorted(S)[k]]] :
        S \in {T \in SUBSET (1..Len(PropPool)) : Cardinality(T) <= MaxProps}}

\* Every assignment of the declared values, the last property varying fastest.
RECURSIVE Assignments(_)
Assignments(props) ==
    IF props = <<>> THEN << <<>> >>
    ELSE LET p == Head(props)
             rest == Assignments(Tail(props))
         IN Join([v \in 1..Len(p.vals) |->
                    [r \in 1..Len(rest) |->
                        <<[name |-> p.name, val |-> p.vals[v]]>> \o rest[r]]])

StatesFrom(props, base) ==
    LET A == Assignments(props)
    IN [j \in 1..Len(A) |-> [id |-> base + j - 1, properties |-> A[j]]]

\* The blocks a document may hold at position k: any identifier and property
\* list, with state ids that start at 0 or at (k - 1) * CodeStride (so two
\* blocks may or may not share ids), or a block object without "states".
BlocksAt(k) ==
    {[identifier |-> id, hasStates |-> TRUE, properties |-> props,
      states |-> StatesFrom(props, base)] :
        id \in Identifiers, props \in PropLists,
        base \in {0, (k - 1) * CodeStride}}
    \cup
    {[identifier |-> id, hasStates |-> FALSE, properties |-> <<>>,
      states |-> <<>>] : id \in Identifiers}

\* The documents of at most MaxOwners blocks; a JSON object read into an
\* OrderedDict has each key once.
RECURSIVE DocsOfLen(_)
DocsOfLen(n) ==
    IF n = 0 THEN {<<>>}
    ELSE {Append(d, b) : d \in DocsOfLen(n - 1), b \in BlocksAt(n)}

Documents ==
    {d \in UNION {DocsOfLen(n) : n \in 0..MaxOwners} :
        \A a, b \in DOMAIN d : a # b => d[a].identifier # d[b].identifier}

\* ------------------------------------------------- what one block appends
\* A literal of the generated code: its type and its text.
Lit(ty, text) == [ty |-> ty, text |-> text]

\* A value of the generated Block type: the variant, whether it carries a
\* data struct, the struct's name, and the struct's fields (name -> literal).
FieldMap(fs) ==
    [n \in {fs[k].field : k \in DOMAIN fs} |->
        fs[CHOOSE k \in DOMAIN fs : fs[k].field = n].lit]
UnitValue(camel) ==
    [variant |-> camel, shape |-> "unit", struct |-> <<>>, data |-> <<>>]
CarrierValue(camel, struct, fs) ==
    [variant |-> camel, shape |-> "carrier", struct |-> struct,
     data |-> FieldMap(fs)]
NoValue == [variant |-> <<>>, shape |-> "none", struct |-> <<>>, data |-> <<>>]

DataStructName(camel) == camel \o <<"D","a","t","a">>

\* if not single_state: name_code += "(_)"
NamePattern(single_state) == IF single_state THEN "unit" ELSE "carrier"

\* Block::<camel>[(_)] => "<block_identifier>",
NameArmStripped(block_identifier, camel, single_state) ==
    [variant |-> camel, pattern |-> NamePattern(single_state),
     ret |-> strip_minecraft_identifier(block_identifier)]

NameArm(block_identifier, camel, single_state) ==
    [variant |-> camel, pattern |-> NamePattern(single_state),
     ret |-> block_identifier]

\* The type of the struct field of one declared property.
FieldType(camel, prop) ==
    LET ty == get_type_from_value(prop.vals[1])
        ty2 == IF prop.name \in KNOWN_PROPERTIES
               THEN snake_to_upper_camel(prop.name) ELSE ty
    IN IF ty2 = TyEnum
       THEN camel \o snake_to_upper_camel(prop.name)
       ELSE ty2

\* Whether the property loop creates an enum for the property.
CreatesEnum(prop) ==
    (IF prop.name \in KNOWN_PROPERTIES
     THEN snake_to_upper_camel(prop.name)
     ELSE get_type_from_value(prop.vals[1])) = TyEnum

\* pub enum <camel><Prop> { <Val>, ... }
SynthEnum(camel, prop) ==
    [name |-> camel \o snake_to_upper_camel(prop.name),
     variants |-> [k \in 1..Len(prop.vals) |-> snake_to_upper_camel(prop.vals[k])]]

RECURSIVE SynthEnums(_, _)
SynthEnums(camel, props) ==
    IF props = <<>> THEN <<>>
    ELSE (IF CreatesEnum(Head(props))
          THEN <<SynthEnum(camel, Head(props))>> ELSE <<>>)
         \o SynthEnums(camel, Tail(props))

\* pub struct <camel>Data { pub <name>: <ty>, ... }
DataStruct(camel, props) ==
    [name |-> DataStructName(camel),
     fields |-> [k \in 1..Len(props) |->
                    [name |-> process_property_name(props[k].name),
                     ty |-> FieldType(camel, props[k])]]]

\* Block::<camel>(data) => { m.insert("<name>", ...data.<name>...); ... },
\* with prop_name already replaced by process_property_name(prop_name).
PropertyNamesArm(camel, props) ==
    [variant |-> camel,
     inserts |-> [k \in 1..Len(props) |->
                    [key |-> process_property_name(props[k].name),
                     field |-> process_property_name(props[k].name)]]]

\* The literal written for one property value of one state.
StateLit(camel, prop_name, prop_val) ==
    LET ty == get_type_from_value(prop_val)
    IN IF ty = TyEnum
       THEN Lit(IF prop_name \in KNOWN_PROPERTIES
                THEN snake_to_upper_camel(prop_name)
                ELSE camel \o snake_to_upper_camel(prop_name),
                snake_to_upper_camel(prop_val))
       ELSE Lit(ty, prop_val)

StateFields(camel, state) ==
    [k \in 1..Len(state.properties) |->
        [field |-> process_property_name(state.properties[k].name),
         lit |-> StateLit(camel, state.properties[k].name,
                          state.properties[k].val)]]

\* if data.<f> == <lit> && ... { return <id>; }
StateIf(camel, state) ==
    [conds |-> StateFields(camel, state), ret |-> state.id]

\* Block::<camel> => return <id>,
UnitEncodeArm(camel, id) ==
    [kind |-> "unit", variant |-> camel, ret |-> id, ifs |-> <<>>, panic |-> ""]

\* Block::<camel>(data) => { <state_if_code> }
CarrierEncodeArm(camel, states) ==
    [kind |-> "carrier", variant |-> camel, ret |-> -1,
     ifs |-> [k \in 1..Len(states) |-> StateIf(camel, states[k])],
     panic |-> ""]

\* <id> => return Block::<camel>,
UnitDecodeArm(camel, id) ==
    [kind |-> "arm", id |-> id, value |-> UnitValue(camel), panic |-> ""]

\* <id> => { return Block::<camel>(<camel>Data { <f>: <lit>, ... }); },
CarrierDecodeArm(camel, state) ==
    [kind |-> "arm", id |-> state.id,
     value |-> CarrierValue(camel, DataStructName(camel),
                            StateFields(camel, state)),
     panic |-> ""]

\* -------------------------------------------------- what the script closes with
\* _ => panic!("Unknown block state ID {}", id), } panic!("Invalid block state ID ...
DecodeCloseNoWildcard == <<>>

DecodeClose ==
    <<[kind |-> "wild", id |-> -1, value |-> NoValue, panic |-> "UnknownCode"],
      [kind |-> "after", id |-> -1, value |-> NoValue, panic |-> "UnknownCode"]>>

\* _ => panic!("Invalid block state {:?}", self), } panic!("Invalid block state ...
EncodeClose ==
    <<[kind |-> "wild", variant |-> <<>>, ret |-> -1, ifs |-> <<>>,
       panic |-> "InvalidState"],
      [kind |-> "after", variant |-> <<>>, ret |-> -1, ifs |-> <<>>,
       panic |-> "InvalidState"]>>

\* _ => (),
PropertyNamesClose == <<[variant |-> <<"_">>, inserts |-> <<>>]>>

\* ------------------------------------------------------------------ state
VARIABLES
    pc,                         \* where the script is
    data,                       \* the loaded document
    next,                       \* index of the next block of the for loop
    enum_code,                  \* variants of pub enum Block
    block_state_id_code,        \* arms of block_state_id
    from_block_state_id_code,   \* arms of from_block_state_id
    state_code,                 \* the data structs
    end_code,                   \* the enums after the impl block
    name_code,                  \* arms of name
    property_names_code,        \* arms of property_names
    fout                        \* the output file

buffers ==
    <<enum_code, block_state_id_code, from_block_state_id_code, state_code,
      end_code, name_code, property_names_code>>
vars == <<pc, data, next, buffers, fout>>

\* The output file as the run found it: its content is not the script's.
Original == [state |-> "original", text |-> <<>>]

Init ==
    /\ pc = "start"
    /\ data = <<>>
    /\ next = 1
    /\ enum_code = <<>>
    /\ block_state_id_code = <<>>
    /\ from_block_state_id_code = <<>>
    /\ state_code = <<>>
    /\ end_code = <<>>
    /\ name_code = <<>>
    /\ property_names_code = <<>>
    /\ fout = Original

\* fin = open(in_path, "r+"): raises when the input cannot be opened.
OpenIn ==
    /\ pc = "start"
    /\ \E readable \in BOOLEAN :
          pc' = IF readable THEN "in_open" ELSE "failed"
    /\ UNCHANGED <<data, next, buffers, fout>>

\* fout = open(out_path, "w+"): creates the file or truncates it.
OpenOut ==
    /\ pc = "in_open"
    /\ fout' = [state |-> "truncated", text |-> <<>>]
    /\ pc' = "out_open"
    /\ UNCHANGED <<data, next, buffers>>

\* data = json.load(fin, ...) of a document that parses, and the buffers'
\* first lines; end_code starts with the well-known enums.
Load ==
    /\ pc = "out_open"
    /\ \E d \in Documents : data' = d
    /\ end_code' = KnownEnums
    /\ pc' = "loop"
    /\ UNCHANGED <<next, enum_code, block_state_id_code,
                   from_block_state_id_code, state_code, name_code,
                   property_names_code, fout>>

\* json.load raises on a document that is not JSON.
LoadFails ==
    /\ pc = "out_open"
    /\ pc' = "failed"
    /\ UNCHANGED <<data, next, buffers, fout>>

\* One iteration of "for block_identifier in data" that raises:
\* obj["states"] of a block object without "states".
BlockFails ==
    /\ pc = "loop"
    /\ next <= Len(data)
    /\ ~data[next].hasStates
    /\ pc' = "failed"
    /\ UNCHANGED <<data, next, buffers, fout>>

\* One whole iteration of "for block_identifier in data".
ProcessBlock ==
    /\ pc = "loop"
    /\ next <= Len(data)
    /\ data[next].hasStates
    /\ LET block_identifier == data[next].identifier
           obj == data[next]
           block_name == strip_minecraft_identifier(block_identifier)
           states == obj.states
           single_state == Len(states) = 1
           camel == snake_to_upper_camel(block_name)
           props == obj.properties
       IN /\ name_code' =
                Append(name_code, NameArm(block_identifier, camel, single_state))
          /\ IF single_state
             THEN /\ enum_code' =
                        Append(enum_code,
                               [name |-> camel, shape |-> "unit", data |-> <<>>])
                  /\ block_state_id_code' =
                        Append(block_state_id_code,
                               UnitEncodeArm(camel, states[1].id))
                  /\ from_block_state_id_code' =
                        Append(from_block_state_id_code,
                               UnitDecodeArm(camel, states[1].id))
                  /\ UNCHANGED <<state_code, end_code, property_names_code>>
             ELSE /\ state_code' = Append(state_code, DataStruct(camel, props))
                  /\ property_names_code' =
                        Append(property_names_code,
                               PropertyNamesArm(camel, props))
                  /\ end_code' = end_code \o SynthEnums(camel, props)
                  /\ enum_code' =
                        Append(enum_code,
                               [name |-> camel, shape |-> "carrier",
                                data |-> DataStructName(camel)])
                  /\ from_block_state_id_code' =
                        from_block_state_id_code \o
                        [k \in 1..Len(states) |->
                            CarrierDecodeArm(camel, states[k])]
                  /\ block_state_id_code' =
                        Append(block_state_id_code,
                               CarrierEncodeArm(camel, states))
    /\ next' = next + 1
    /\ UNCHANGED <<pc, data, fout>>

\* After the loop: the fallback arms and the closing lines of each buffer.
Close ==
    /\ pc = "loop"
    /\ next > Len(data)
    /\ from_block_state_id_code' = from_block_state_id_code \o DecodeClose
    /\ block_state_id_code' = block_state_id_code \o EncodeClose
    /\ property_names_code' = property_names_code \o PropertyNamesClose
    /\ pc' = "write"
    /\ UNCHANGED <<data, next, enum_code, state_code, end_code, name_code, fout>>

\* The fout.write calls, in their order.
OutputText ==
    <<enum_code, block_state_id_code, from_block_state_id_code, name_code,
      property_names_code, state_code, end_code>>

WriteOutput ==
    /\ pc = "write"
    /\ fout' = [state |-> "written", text |-> OutputText]
    /\ pc' = "done"
    /\ UNCHANGED <<data, next, buffers>>

Next ==
    \/ OpenIn
    \/ OpenOut
    \/ Load
    \/ LoadFails
    \/ BlockFails
    \/ ProcessBlock
    \/ Close
    \/ WriteOutput

Spec == Init /\ [][Next]_vars

\* ------------------------------------------- the generated functions' meaning
\* The smallest element of a non-empty set of numbers.
Min(S) == CHOOSE x \in S : \A y \in S : x <= y

\* block_state_id(&self): the first arm whose pattern is self's variant; a
\* unit arm returns its id, a data arm runs its ifs in order and falls out of
\* the match to the panic after it; the wildcard arm panics.
Encode(arms, v) ==
    LET hits == {k \in DOMAIN arms :
                    /\ arms[k].kind \in {"unit", "carrier"}
                    /\ arms[k].kind = v.shape
                    /\ arms[k].variant = v.variant}
        wild == {k \in DOMAIN arms : arms[k].kind = "wild"}
        after == {k \in DOMAIN arms : arms[k].kind = "after"}
    IN IF hits = {}
       THEN IF wild = {} THEN [tag |-> "undefined", code |-> -1]
            ELSE [tag |-> arms[Min(wild)].panic, code |-> -1]
       ELSE LET a == arms[Min(hits)]
                taken == {j \in DOMAIN a.ifs :
                            \A c \in DOMAIN a.ifs[j].conds :
                                /\ a.ifs[j].conds[c].field \in DOMAIN v.data
                                /\ v.data[a.ifs[j].conds[c].field]
                                      = a.ifs[j].conds[c].lit}
            IN IF a.kind = "unit" THEN [tag |-> "ok", code |-> a.ret]
               ELSE IF taken # {}
                    THEN [tag |-> "ok", code |-> a.ifs[Min(taken)].ret]
               ELSE IF after = {} THEN [tag |-> "undefined", code |-> -1]
               ELSE [tag |-> arms[Min(after)].panic, code |-> -1]

\* from_block_state_id(id): the first arm for id, else the wildcard's panic.
Decode(arms, c) ==
    LET hits == {k \in DOMAIN arms : arms[k].kind = "arm" /\ arms[k].id = c}
        wild == {k \in DOMAIN arms : arms[k].kind = "wild"}
    IN IF hits # {} THEN [tag |-> "ok", value |-> arms[Min(hits)].value]
       ELSE IF wild = {} THEN [tag |-> "undefined", value |-> NoValue]
       ELSE [tag |-> arms[Min(wild)].panic, value |-> NoValue]

\* name(&self): the first arm whose pattern is self's variant.
Name(arms, v) ==
    LET hits == {k \in DOMAIN arms :
                    arms[k].variant = v.variant /\ arms[k].pattern = v.shape}
    IN IF hits = {} THEN <<>> ELSE arms[Min(hits)].ret

\* to_snake_case() of the heck crate on a variant name or a number: a word
\* ends after a character in lower-case mode that an upper-case letter
\* follows, and before the last capital of a run of capitals that a
\* lower-case letter follows; digits keep the mode.
RECURSIVE SnakeFrom(_, _, _)
SnakeFrom(s, k, mode) ==
    IF k > Len(s) THEN <<>>
    ELSE IF k = Len(s) THEN <<ToLower(s[k])>>
    ELSE LET c == s[k]
             nx == s[k + 1]
             next_mode == IF IsLower(c) THEN "lower"
                          ELSE IF IsUpper(c) THEN "upper" ELSE mode
         IN IF next_mode = "lower" /\ IsUpper(nx)
            THEN <<ToLower(c), "_">> \o SnakeFrom(s, k + 1, "boundary")
            ELSE IF mode = "upper" /\ IsUpper(c) /\ IsLower(nx)
            THEN <<"_", ToLower(c)>> \o SnakeFrom(s, k + 1, "boundary")
            ELSE <<ToLower(c)>> \o SnakeFrom(s, k + 1, next_mode)

to_snake_case(s) == SnakeFrom(s, 1, "boundary")

\* property_names(&self): the map the first arm for self's variant fills with
\* "<key>" -> format!("{:?}", data.<field>).to_snake_case(); the wildcard arm
\* leaves it empty.
PropertyNames(arms, v) ==
    LET hits == {k \in DOMAIN arms :
                    arms[k].variant = v.variant /\ v.shape = "carrier"}
    IN IF hits = {} THEN <<>>
       ELSE LET ins == arms[Min(hits)].inserts
            IN [key \in {ins[k].key : k \in DOMAIN ins} |->
                  LET k == CHOOSE j \in DOMAIN ins :
                              /\ ins[j].key = key
                              /\ \A m \in DOMAIN ins :
                                    ins[m].key = key => m <= j
                  IN to_snake_case(v.data[ins[k].field].text)]

\* ------------------------------------------------ reading the written output
Done == pc = "done"
OutEnum == fout.text[1]
OutEncode == fout.text[2]
OutDecode == fout.text[3]
OutName == fout.text[4]
OutPropertyNames == fout.text[5]
OutStructs == fout.text[6]
OutEnums == fout.text[7]

\* The attribute names with a shared enumeration.
WellKnownNames ==
    {<<"f","a","c","i","n","g">>, <<"a","x","i","s">>, <<"h","a","l","f">>,
     <<"f","a","c","e">>, <<"s","h","a","p","e">>, <<"h","i","n","g","e">>,
     <<"p","a","r","t">>}

CamelOf(owner) ==
    snake_to_upper_camel(strip_minecraft_identifier(owner.identifier))

\* The variant of pub enum Block declared for an owner, and its data struct.
DeclOf(owner) ==
    OutEnum[Min({k \in DOMAIN OutEnum : OutEnum[k].name = CamelOf(owner)})]
IsCarrier(owner) == DeclOf(owner).shape = "carrier"
StructOf(owner) ==
    OutStructs[Min({k \in DOMAIN OutStructs :
                      OutStructs[k].name = DeclOf(owner).data})]

\* The value of the declared Block type that a state's assignment denotes:
\* each field holds the state's literal read at the field's declared type.
ValueOfState(owner, state) ==
    IF ~IsCarrier(owner) THEN UnitValue(CamelOf(owner))
    ELSE LET fields == StructOf(owner).fields
             valOf(f) ==
                state.properties[
                    CHOOSE j \in DOMAIN state.properties :
                        process_property_name(state.properties[j].name) = f].val
         IN CarrierValue(CamelOf(owner), DeclOf(owner).data,
                [k \in DOMAIN fields |->
                    [field |-> fields[k].name,
                     lit |-> Lit(fields[k].ty,
                                 IF fields[k].ty \in {TyBool, TyI32}
                                 THEN valOf(fields[k].name)
                                 ELSE snake_to_upper_camel(valOf(fields[k].name)))]])

\* Every state id of the document.
CodesOf(d) == {c \in 0..((MaxOwners + 1) * CodeStride) :
                  \E k \in DOMAIN d : \E j \in DOMAIN d[k].states :
                      d[k].states[j].id = c}

\* No two states of the document share an id.
CodesUnique(d) ==
    \A k1, k2 \in DOMAIN d :
        \A j1 \in DOMAIN d[k1].states : \A j2 \in DOMAIN d[k2].states :
            d[k1].states[j1].id = d[k2].states[j2].id => (k1 = k2 /\ j1 = j2)

\* The type the specification's resolver gives an attribute of an owner.
SpecResolve(owner, prop) ==
    IF \A k \in DOMAIN prop.vals : prop.vals[k] \in {S_true, S_false}
    THEN TyBool
    ELSE IF \A k \in DOMAIN prop.vals : IsDigit(prop.vals[k])
    THEN TyI32
    ELSE IF prop.name \in WellKnownNames
    THEN snake_to_upper_camel(prop.name)
    ELSE CamelOf(owner) \o snake_to_upper_camel(prop.name)

\* The map from attribute name to literal value that a state assigns.
AssignmentOf(state) ==
    [n \in {state.properties[j].name : j \in DOMAIN state.properties} |->
        state.properties[CHOOSE j \in DOMAIN state.properties :
                            state.properties[j].name = n].val]

\* ------------------------------------------------------------------ claims

\* C1: round trip.  In a finished run over a document whose state ids are
\* unique, for every state of every owner Decode(Encode(v)) = v, with v the
\* variant value the state's assignment denotes, and Encode(Decode(c)) = c,
\* with c the state's id.
C1_RoundTrip ==
    (Done /\ CodesUnique(data)) =>
        \A k \in DOMAIN data : \A j \in DOMAIN data[k].states :
            LET st == data[k].states[j]
                v == ValueOfState(data[k], st)
                e == Encode(OutEncode, v)
                d == Decode(OutDecode, st.id)
            IN /\ e.tag = "ok"
               /\ Decode(OutDecode, e.code) = [tag |-> "ok", value |-> v]
               /\ d.tag = "ok"
               /\ Encode(OutEncode, d.value) = [tag |-> "ok", code |-> st.id]

\* C2: duplicate codes are detected.  No run writes a Decode mapping in which
\* two arms are for the same code; a document with a repeated state id makes
\* the run fail instead.
C2_DuplicateCodeDetected ==
    fout.state = "written" =>
        \A a, b \in DOMAIN OutDecode :
            (OutDecode[a].kind = "arm" /\ OutDecode[b].kind = "arm"
                /\ OutDecode[a].id = OutDecode[b].id) => a = b

\* C3: output is all-or-nothing.  A run that has failed has left the output
\* file as it found it, and a run that has finished has written the full text.
C3_AllOrNothing ==
    /\ pc = "failed" => fout = Original
    /\ Done => fout = [state |-> "written", text |-> OutputText]

\* C4: variant shape.  In a finished run an owner is declared a unit variant
\* exactly when it has one state and no attribute names; any other owner is a
\* carrier whose struct has one field per attribute name in declared order.
C4_VariantShape ==
    Done =>
        \A k \in DOMAIN data :
            LET owner == data[k]
            IN /\ (DeclOf(owner).shape = "unit")
                    <=> (Len(owner.states) = 1 /\ owner.properties = <<>>)
               /\ DeclOf(owner).shape # "unit" =>
                    /\ DeclOf(owner).shape = "carrier"
                    /\ [f \in DOMAIN StructOf(owner).fields |->
                            StructOf(owner).fields[f].name]
                       = [p \in DOMAIN owner.properties |->
                            process_property_name(owner.properties[p].name)]

\* C5: type resolution.  In a finished run every field of every data struct
\* has the type the specification's precedence gives its attribute: Bool when
\* all values are booleans, else Int32 when all are integers, else the
\* well-known enumeration of a well-known name, else the owner's own.
C5_TypeResolution ==
    Done =>
        \A k \in DOMAIN data :
            IsCarrier(data[k]) =>
                \A p \in DOMAIN data[k].properties :
                    StructOf(data[k]).fields[p].ty
                        = SpecResolve(data[k], data[k].properties[p])

\* C6: PropertyNames reproduces the assignment.  In a finished run, for every
\* state of a carrier owner PropertyNames of the state's value is the state's
\* assignment, keyed by the original attribute names and valued by the
\* original literals; for a unit owner it is empty.
C6_PropertyNamesAssignment ==
    Done =>
        \A k \in DOMAIN data : \A j \in DOMAIN data[k].states :
            LET v == ValueOfState(data[k], data[k].states[j])
            IN PropertyNames(OutPropertyNames, v)
                  = IF IsCarrier(data[k])
                    THEN AssignmentOf(data[k].states[j])
                    ELSE <<>>

\* The values of the declared Block type the generated functions are tried
\* on: for a unit variant its one value, for a carrier every filling of the
\* struct's fields with the literals of the owner's states or a boolean.
LitsOf(owner) ==
    {StateLit(CamelOf(owner), owner.states[j].properties[q].name,
              owner.states[j].properties[q].val) :
        j \in DOMAIN owner.states, q \in DOMAIN owner.properties}
    \cup {Lit(TyBool, S_true), Lit(TyBool, S_false)}

ValuesOf(owner) ==
    IF ~IsCarrier(owner) THEN {UnitValue(CamelOf(owner))}
    ELSE LET names == {StructOf(owner).fields[f].name :
                          f \in DOMAIN StructOf(owner).fields}
         IN {[variant |-> CamelOf(owner), shape |-> "carrier",
              struct |-> DeclOf(owner).data, data |-> m] :
                m \in [names -> LitsOf(owner)]}

\* A value satisfies a state's predicate, given as the fields and literals
\* the state assigns: every such field of the value holds the literal.
Satisfies(assigned, v) ==
    \A q \in DOMAIN assigned :
        /\ assigned[q].field \in DOMAIN v.data
        /\ v.data[assigned[q].field] = assigned[q].lit

\* The ids tried on Decode: every id a state of the model can have, and more.
TriedCodes == 0..((MaxOwners + 1) * CodeStride)

\* C7: each generated mapping is total with an explicit failure outcome.  In
\* a finished run, Encode of a value returns the id of a state of the value's
\* owner whose predicate the value satisfies when there is one and signals
\* InvalidState when there is none; Decode of a code returns a value when a
\* state has that code and signals UnknownCode when none has.
C7_TotalWithFailure ==
    Done =>
        /\ \A k \in DOMAIN data :
              LET assigned == [j \in DOMAIN data[k].states |->
                                StateFields(CamelOf(data[k]), data[k].states[j])]
                  carrier == IsCarrier(data[k])
              IN \A v \in ValuesOf(data[k]) :
                    LET e == Encode(OutEncode, v)
                        sat == {j \in DOMAIN data[k].states :
                                  carrier => Satisfies(assigned[j], v)}
                    IN IF sat # {}
                       THEN /\ e.tag = "ok"
                            /\ \E j \in sat : data[k].states[j].id = e.code
                       ELSE e = [tag |-> "InvalidState", code |-> -1]
        /\ \A c \in TriedCodes :
              LET d == Decode(OutDecode, c)
              IN IF c \in CodesOf(data)
                 THEN d.tag = "ok" /\ d.value.shape \in {"unit", "carrier"}
                 ELSE d = [tag |-> "UnknownCode", value |-> NoValue]

\* C7 witness: a finished run in which Encode returns a code for one value and
\* signals InvalidState for another, and Decode meets a bound and an unbound code.
C7_Witness ==
    /\ Done
    /\ \E k \in DOMAIN data : \E v, w \in ValuesOf(data[k]) :
          /\ Encode(OutEncode, v).tag = "ok"
          /\ Encode(OutEncode, w).tag = "InvalidState"
    /\ \E c, u \in TriedCodes :
          /\ Decode(OutDecode, c).tag = "ok"
          /\ Decode(OutDecode, u).tag = "UnknownCode"

\* The enums of the output with a given name.
EnumsNamed(n) == {k \in DOMAIN OutEnums : OutEnums[k].name = n}

\* The (owner, attribute) pairs of the document whose struct field has an
\* enumeration of the owner's own as its type.
OwnEnumPairs ==
    {<<k, p>> \in (DOMAIN data) \X (1..Len(PropPool)) :
        /\ IsCarrier(data[k])
        /\ p \in DOMAIN data[k].properties
        /\ StructOf(data[k]).fields[p].ty
              = CamelOf(data[k]) \o snake_to_upper_camel(data[k].properties[p].name)}

\* C8: enum deduplication.  In a finished run every well-known attribute name
\* has exactly one enumeration in the output however many owners declare it,
\* no owner has an enumeration of its own for a well-known name, and every
\* other enumeration of the output is the one definition of one (owner,
\* attribute) pair whose field has it as type.
C8_EnumDeduplication ==
    Done =>
        /\ \A n \in WellKnownNames :
              Cardinality(EnumsNamed(snake_to_upper_camel(n))) = 1
        /\ \A k \in DOMAIN data : \A n \in WellKnownNames :
              EnumsNamed(CamelOf(data[k]) \o snake_to_upper_camel(n)) = {}
        /\ \A pr \in OwnEnumPairs :
              Cardinality(EnumsNamed(StructOf(data[pr[1]]).fields[pr[2]].ty)) = 1
        /\ Len(OutEnums) = Cardinality(WellKnownNames) + Cardinality(OwnEnumPairs)

\* C8 witness: a finished run in which two owners with several states declare
\* the same well-known attribute and one of them also has an enumeration of
\* its own.
C8_Witness ==
    /\ Done
    /\ \E a, b \in DOMAIN data :
          /\ a # b
          /\ Len(data[a].states) > 1 /\ Len(data[b].states) > 1
          /\ \E p \in DOMAIN data[a].properties :
                \E q \in DOMAIN data[b].properties :
                    /\ data[a].properties[p].name \in WellKnownNames
                    /\ data[a].properties[p].name = data[b].properties[q].name
                    /\ ~(\A x \in DOMAIN data[a].properties[p].vals :
                            data[a].properties[p].vals[x] \in {S_true, S_false})
          /\ \E pr \in OwnEnumPairs : pr[1] = a

\* C9: name invariance.  In a finished run the name mapping has one arm per
\* owner, in owner order, whose pattern has the shape the owner was declared
\* with, and Name of the value of every state of an owner is the owner's
\* identifier as the document gives it.
C9_NameInvariance ==
    Done =>
        /\ Len(OutName) = Len(data)
        /\ \A k \in DOMAIN data :
              /\ OutName[k].variant = CamelOf(data[k])
              /\ OutName[k].pattern = DeclOf(data[k]).shape
              /\ \A j \in DOMAIN data[k].states :
                    Name(OutName, ValueOfState(data[k], data[k].states[j]))
                        = data[k].identifier

\* C9 witness: a finished run over a unit owner and a carrier owner with
\* several states, whose values all have names.
C9_Witness ==
    /\ Done
    /\ \E a, b \in DOMAIN data :
          /\ ~IsCarrier(data[a])
          /\ IsCarrier(data[b]) /\ Len(data[b].states) > 1
          /\ Name(OutName, ValueOfState(data[b], data[b].states[2]))
                = data[b].identifier
          /\ Name(OutName, ValueOfState(data[a], data[a].states[1]))
                = data[a].identifier

\* C10: field type and literal representation agree.  In a finished run, for
\* every carrier owner every literal of its Encode predicates and of its
\* Decode constructors has the type of the struct field it is compared with or
\* stored in, and every enum literal names a variant of an enum of the output.
C10_LiteralTypesAgree ==
    Done =>
        \A k \in DOMAIN data :
            IsCarrier(data[k]) =>
                LET fields == StructOf(data[k]).fields
                    tyOf(f) == fields[CHOOSE x \in DOMAIN fields :
                                        fields[x].name = f].ty
                    okLit(f, lit) ==
                        /\ \E x \in DOMAIN fields : fields[x].name = f
                        /\ lit.ty = tyOf(f)
                        /\ lit.ty \notin {TyBool, TyI32} =>
                              \E e \in DOMAIN OutEnums :
                                  /\ OutEnums[e].name = lit.ty
                                  /\ \E x \in DOMAIN OutEnums[e].variants :
                                        OutEnums[e].variants[x] = lit.text
                IN /\ \A a \in DOMAIN OutEncode :
                        OutEncode[a].variant = CamelOf(data[k]) =>
                            \A j \in DOMAIN OutEncode[a].ifs :
                                \A c \in DOMAIN OutEncode[a].ifs[j].conds :
                                    okLit(OutEncode[a].ifs[j].conds[c].field,
                                          OutEncode[a].ifs[j].conds[c].lit)
                   /\ \A a \in DOMAIN OutDecode :
                        OutDecode[a].value.variant = CamelOf(data[k]) =>
                            \A f \in DOMAIN OutDecode[a].value.data :
                                okLit(f, OutDecode[a].value.data[f])

====
